---- MODULE Spec2Model ----
(***************************************************************************)
(* A model of the Wialon remote API client of wialon.go: the Wialon struct *)
(* (Sid, BaseAPIUrl, DefaultParams), its constructors, Login, Logout,      *)
(* UpdateExtraParams, WialonAPICall and the ErrorHandler helper.           *)
(*                                                                         *)
(* Go strings that the code slices (operation names) are sequences of      *)
(* one-character strings; every other string is a TLA+ string.  A Go       *)
(* interface{} value is a record tagged with its dynamic type.  A JSON     *)
(* number is kept in tenths, so that fractions exist.  A panic is the      *)
(* variable aborted becoming non-empty: the process is gone and no         *)
(* operation follows.                                                      *)
(***************************************************************************)
EXTENDS Integers, Sequences, FiniteSets, TLC

VARIABLES Sid, BaseAPIUrl, DefaultParams, aborted, last, written, merged

vars == <<Sid, BaseAPIUrl, DefaultParams, aborted, last, written, merged>>

(***************************************************************************)
(* Bounds of the model.                                                    *)
(***************************************************************************)
\* longest tail appended to a prefix when operation names are enumerated
MaxSuffix == 3
\* error values c + k * 2^16 are enumerated for k in -MaxWrap .. MaxWrap
MaxWrap == 1
\* largest integer registered as a default parameter value
MaxInt == 2

(***************************************************************************)
(* Strings.                                                                *)
(***************************************************************************)
RECURSIVE Str(_)
\* the Go string made of the characters of cs
Str(cs) == IF cs = <<>> THEN "" ELSE Head(cs) \o Str(Tail(cs))

\* the literal "unit_group" of WialonAPICall
UnitGroup == <<"u", "n", "i", "t", "_", "g", "r", "o", "u", "p">>

\* strings.HasPrefix(s, prefix)
HasPrefix(s, prefix) ==
    /\ Len(s) >= Len(prefix)
    /\ SubSeq(s, 1, Len(prefix)) = prefix

\* s[lo:hi] is legal in Go iff 0 <= lo <= hi <= len(s); otherwise it panics
SliceInRange(s, lo, hi) == 0 <= lo /\ lo <= hi /\ hi <= Len(s)

\* s[lo:hi], for lo, hi in range (Go offsets are 0-based, hi is exclusive)
Slice(s, lo, hi) == SubSeq(s, lo + 1, hi)

\* index (1-based) of the first occurrence of character c in s, 0 if none
IndexOf(s, c) ==
    IF \E i \in 1..Len(s) : s[i] = c
    THEN CHOOSE i \in 1..Len(s) : s[i] = c /\ \A j \in 1..(i - 1) : s[j] # c
    ELSE 0

\* strings.Replace(s, old, new, 1) for one-character old and new
ReplaceFirst(s, old, new) ==
    LET i == IndexOf(s, old)
    IN  IF i = 0 THEN s ELSE [s EXCEPT ![i] = new]

\* a NormalizeSvc that replaces every underscore
NormalizeSvcAll(action) ==
    [ok |-> TRUE,
     svc |-> [i \in 1..Len(action) |-> IF action[i] = "_" THEN "/" ELSE action[i]]]

\* the service name computed at the head of WialonAPICall; ok is FALSE when
\* the slice expression panics (slice bounds out of range)
NormalizeSvc(action) ==
    IF HasPrefix(action, UnitGroup)
    THEN IF SliceInRange(action, Len(UnitGroup) + 1, Len(action))
         THEN [ok |-> TRUE,
               svc |-> Slice(action, 0, Len(UnitGroup)) \o <<"/">>
                       \o Slice(action, Len(UnitGroup) + 1, Len(action))]
         ELSE [ok |-> FALSE, svc |-> <<>>]
    ELSE [ok |-> TRUE, svc |-> ReplaceFirst(action, "_", "/")]

(***************************************************************************)
(* Values of type interface{} held in a WialonAPIParams map.  t is the     *)
(* dynamic type; s holds a string, n an int, a bool (0, 1) or a float64 in *)
(* tenths, m the entries of a nested map.  A chan stands for the values    *)
(* json.Marshal rejects.                                                   *)
(***************************************************************************)
\* the keys of the model's parameter maps, in the byte order json.Marshal
\* sorts them by
KeyOrder == <<"a", "b", "params", "sid", "svc", "token">>

\* a map with no entries
NoEntries == [k \in {} |-> 0]

StrV(s) == [t |-> "string", s |-> s, n |-> 0, m |-> NoEntries]

IntV(n) == [t |-> "int", s |-> "", n |-> n, m |-> NoEntries]

FloatV(tenths) == [t |-> "float64", s |-> "", n |-> tenths, m |-> NoEntries]

BoolV(b) == [t |-> "bool", s |-> "", n |-> IF b THEN 1 ELSE 0, m |-> NoEntries]

ChanV == [t |-> "chan", s |-> "", n |-> 0, m |-> NoEntries]

\* a nested WialonAPIParams value
MapV(m) == [t |-> "map", s |-> "", n |-> 0, m |-> m]

Digits == <<"0", "1", "2", "3", "4", "5", "6", "7", "8", "9">>

RECURSIVE ItoaNat(_)
ItoaNat(n) ==
    IF n < 10 THEN Digits[n + 1] ELSE ItoaNat(n \div 10) \o Digits[(n % 10) + 1]

\* strconv.Itoa
Itoa(n) == IF n < 0 THEN "-" \o ItoaNat(-n) ELSE ItoaNat(n)

\* fmt.Sprintf("%g", f) for a float64 f = tenths / 10 of small magnitude:
\* the shortest decimal, with no fraction when it is zero
FormatG(tenths) ==
    LET a == IF tenths < 0 THEN -tenths ELSE tenths
        sign == IF tenths < 0 THEN "-" ELSE ""
    IN  sign \o ItoaNat(a \div 10)
             \o (IF a % 10 = 0 THEN "" ELSE "." \o Digits[(a % 10) + 1])

\* json.Marshal of a Go string without characters that need escaping
Quote(s) == "\"" \o s \o "\""

\* whether json.Marshal accepts the value (a chan is an unsupported type)
Marshalable(v) ==
    /\ v.t # "chan"
    /\ \A k \in DOMAIN v.m : v.m[k].t # "chan"

\* json.Marshal of a value that holds no map
MarshalScalar(v) ==
    CASE v.t = "string" -> Quote(v.s)
      [] v.t = "int" -> Itoa(v.n)
      [] v.t = "float64" -> FormatG(v.n)
      [] v.t = "bool" -> (IF v.n = 1 THEN "true" ELSE "false")
      [] OTHER -> ""

RECURSIVE MarshalEntries(_, _, _)
\* the entries of map m from position i of KeyOrder on; first tells whether
\* no entry was written yet
MarshalEntries(m, i, first) ==
    IF i > Len(KeyOrder) THEN ""
    ELSE IF KeyOrder[i] \in DOMAIN m
         THEN (IF first THEN "" ELSE ",")
              \o Quote(KeyOrder[i]) \o ":" \o MarshalScalar(m[KeyOrder[i]])
              \o MarshalEntries(m, i + 1, FALSE)
         ELSE MarshalEntries(m, i + 1, first)

\* json.Marshal of a marshalable value: a map is an object with sorted keys
Marshal(v) ==
    IF v.t = "map" THEN "{" \o MarshalEntries(v.m, 1, TRUE) \o "}"
    ELSE MarshalScalar(v)

\* whether the type switch of WialonAPICall yields a field for the value
FieldOk(v) == v.t \in {"string", "int", "float64"} \/ Marshalable(v)

\* the field text the type switch of WialonAPICall sets for the value
FieldValue(v) ==
    CASE v.t = "string" -> v.s
      [] v.t = "int" -> Itoa(v.n)
      [] v.t = "float64" -> FormatG(v.n)
      [] OTHER -> Marshal(v)

(***************************************************************************)
(* Response bodies and encoding/json's Unmarshal into a                    *)
(* map[string]interface{}.  A body is invalid text, or the JSON value      *)
(* null, or an array, or an object whose fields are JSON values: a string, *)
(* a number (in tenths; huge is 1 or -1 for a number beyond the int64      *)
(* range, such as 1e300), a boolean or null.                               *)
(***************************************************************************)
JStr(s) == [t |-> "string", s |-> s, n |-> 0, huge |-> 0]

JNum(tenths) == [t |-> "number", s |-> "", n |-> tenths, huge |-> 0]

JHuge(sign) == [t |-> "number", s |-> "", n |-> 0, huge |-> sign]

JBool == [t |-> "bool", s |-> "", n |-> 1, huge |-> 0]

JNull == [t |-> "null", s |-> "", n |-> 0, huge |-> 0]

\* the body {..fields..}
Object(fields) == [kind |-> "object", obj |-> fields]

\* text that is not JSON, the JSON value null, and a JSON array
InvalidBody == [kind |-> "invalid", obj |-> NoEntries]

NullBody == [kind |-> "null", obj |-> NoEntries]

ArrayBody == [kind |-> "array", obj |-> NoEntries]

\* the result of a call that returned nothing
NoBody == [kind |-> "none", obj |-> NoEntries]

\* the interface{} value Unmarshal stores for a JSON value: a string for a
\* string, a float64 for a number, a bool for a boolean, nil for null
Decode(j) ==
    [t |-> CASE j.t = "string" -> "string"
             [] j.t = "number" -> "float64"
             [] j.t = "bool" -> "bool"
             [] OTHER -> "nil",
     s |-> j.s, n |-> j.n, huge |-> j.huge]

\* json.Unmarshal(body, &target) for a non-nil map target: the fields of an
\* object are stored into the map; invalid text, and a JSON value that is
\* not an object, leave the map as it was (the error is dropped)
Unmarshal(body, target) ==
    IF body.kind = "object"
    THEN [k \in DOMAIN target \cup DOMAIN body.obj |->
            IF k \in DOMAIN body.obj THEN Decode(body.obj[k]) ELSE target[k]]
    ELSE target

\* v, ok := m[key].(string): the zero value and false for a missing key or
\* another dynamic type
AssertString(m, key) ==
    IF key \in DOMAIN m /\ m[key].t = "string"
    THEN [ok |-> TRUE, s |-> m[key].s]
    ELSE [ok |-> FALSE, s |-> ""]

\* v, ok := m[key].(float64)
AssertFloat64(m, key) ==
    IF key \in DOMAIN m /\ m[key].t = "float64"
    THEN [ok |-> TRUE, n |-> m[key].n, huge |-> m[key].huge]
    ELSE [ok |-> FALSE, n |-> 0, huge |-> 0]

(***************************************************************************)
(* Integers.  A Go int (64 bits) is a record: sat is "none" and v the      *)
(* value, or sat is "min" or "max" for the two ends of the int64 range.    *)
(***************************************************************************)
\* truncation toward zero of tenths / 10
Trunc(tenths) == IF tenths >= 0 THEN tenths \div 10 ELSE -((-tenths) \div 10)

\* int(f) for a float64 f.  The value is truncated toward zero; for a float
\* beyond the int64 range the result depends on the platform (amd64 yields
\* the minimum, arm64 saturates), so every such outcome is possible
FloatToInt(f) ==
    CASE f.huge = 0 -> {[sat |-> "none", v |-> Trunc(f.n)]}
      [] f.huge > 0 -> {[sat |-> "min", v |-> 0], [sat |-> "max", v |-> 0]}
      [] OTHER -> {[sat |-> "min", v |-> 0]}

\* int(err) == 0
IsZero(i) == i.sat = "none" /\ i.v = 0

\* the number of values of a 16-bit integer
TwoTo16 == 65536

\* WialonError(i): the conversion to int16 keeps the low 16 bits
ToInt16(i) ==
    CASE i.sat = "min" -> 0
      [] i.sat = "max" -> -1
      [] OTHER -> ((i.v + (TwoTo16 \div 2)) % TwoTo16) - (TwoTo16 \div 2)

(***************************************************************************)
(* The error codes and the table of their descriptions.                    *)
(***************************************************************************)
InvalidSession == 1

InvalidService == 2

InvalidResult == 3

InvalidInput == 4

ErrPerformReq == 5

UnknownError == 6

AccessDenied == 7

InvalidUserNameOrPassword == 8

AuthServerUnavailable == 9

NoMsgForSelectedInterval == 1001

ItemAlreadyExists == 1002

OneReqAllowed == 1003

MsgLimitExceeded == 1004

ExecutionTimeExceeded == 1005

LimitAttemptsTwoFactAuth == 1006

IPChangedOrSessExpired == 1011

UserCannotBeBoundToAcc == 2014

SensDeletingForbidden == 2015

\* the codes that have a description
DefinedErrors ==
    {InvalidSession, InvalidService, InvalidResult,
     InvalidInput, ErrPerformReq, UnknownError,
     AccessDenied, InvalidUserNameOrPassword, AuthServerUnavailable,
     NoMsgForSelectedInterval, ItemAlreadyExists, OneReqAllowed,
     MsgLimitExceeded, ExecutionTimeExceeded, LimitAttemptsTwoFactAuth,
     IPChangedOrSessExpired, UserCannotBeBoundToAcc, SensDeletingForbidden}

\* the description of a defined code
Description(we) ==
    CASE we = InvalidSession ->
           "Invalid session"
      [] we = InvalidService ->
           "Invalid service"
      [] we = InvalidResult ->
           "Invalid result"
      [] we = InvalidInput ->
           "Invalid input"
      [] we = ErrPerformReq ->
           "Error performing request"
      [] we = UnknownError ->
           "Unknown error"
      [] we = AccessDenied ->
           "Access denied"
      [] we = InvalidUserNameOrPassword ->
           "Invalid user name or password"
      [] we = AuthServerUnavailable ->
           "Authorization server is unavailable, please try again later"
      [] we = NoMsgForSelectedInterval ->
           "No message for selected interval"
      [] we = ItemAlreadyExists ->
           "Item with such inique property already exists"
      [] we = OneReqAllowed ->
           "Only one request of given time is allowed at the moment"
      [] we = MsgLimitExceeded ->
           "Limit of messages has been exceeded"
      [] we = ExecutionTimeExceeded ->
           "Execution time has exceeded the limit"
      [] we = LimitAttemptsTwoFactAuth ->
           "Exceeding the limit of attempts to enter a two-factor authorization code"
      [] we = IPChangedOrSessExpired ->
           "Your IP has changed or session has expired"
      [] we = UserCannotBeBoundToAcc ->
           "Selected user is a creator for some system objects, thus this user cannot be bound to a new account"
      [] we = SensDeletingForbidden ->
           "Sensor deleting is forbidden because of using in another sensor or advanced properties of the unit"

\* WialonErrors[we]: the description, the empty string for a missing key
WialonErrors(we) == IF we \in DefinedErrors THEN Description(we) ELSE ""

(***************************************************************************)
(* The client.  DefaultParams is a Go map: nil, or a map with entries m.   *)
(***************************************************************************)
NilMap == [nil |-> TRUE, m |-> NoEntries]

GoMap(m) == [nil |-> FALSE, m |-> m]

\* fmt.Sprintf("%s://%s%s/wialon/ajax.html?", scheme, host, port)
BaseUrl(scheme, host, port) ==
    scheme \o "://" \o host \o port \o "/wialon/ajax.html?"

\* the Wialon NewWialon returns; a non-empty port gets its colon
NewWialon(scheme, host, port, sid, extraParams) ==
    [Sid |-> sid,
     BaseAPIUrl |-> BaseUrl(scheme, host, IF port # "" THEN ":" \o port ELSE port),
     DefaultParams |-> extraParams]

\* the Wialon NewDefaultWialon returns
NewDefaultWialon == NewWialon("https", "hst-api.wialon.com", "", "", GoMap(NoEntries))

\* an UpdateExtraParams that keeps the value of a key already present
UpdateExtraParamsKeepOld(dp, params) ==
    IF DOMAIN params = {} THEN [ok |-> TRUE, dp |-> dp]
    ELSE IF dp.nil THEN [ok |-> FALSE, dp |-> dp]
    ELSE [ok |-> TRUE,
          dp |-> GoMap([k \in DOMAIN dp.m \cup DOMAIN params |->
                          IF k \in DOMAIN dp.m THEN dp.m[k] ELSE params[k]])]

\* an UpdateExtraParams that replaces the mapping by params
UpdateExtraParamsReplace(dp, params) ==
    IF DOMAIN params = {} THEN [ok |-> TRUE, dp |-> dp]
    ELSE IF dp.nil THEN [ok |-> FALSE, dp |-> dp]
    ELSE [ok |-> TRUE, dp |-> GoMap(params)]

\* UpdateExtraParams on default parameters dp: every entry of params is
\* assigned into the map.  Assigning into a nil map panics (ok is FALSE);
\* with no entry to assign the loop body never runs
UpdateExtraParams(dp, params) ==
    IF DOMAIN params = {} THEN [ok |-> TRUE, dp |-> dp]
    ELSE IF dp.nil THEN [ok |-> FALSE, dp |-> dp]
    ELSE [ok |-> TRUE,
          dp |-> GoMap([k \in DOMAIN dp.m \cup DOMAIN params |->
                          IF k \in DOMAIN params THEN params[k] ELSE dp.m[k]])]

\* the constructor arguments and base URLs of the model
Schemes == {"https"}

Hosts == {"example.com"}

Ports == {"443", "x"}

\* whether url.Parse accepts the base URL: a port must be decimal digits
UrlParseOk(base) ==
    base \in {BaseUrl(s, h, p) : s \in Schemes, h \in Hosts \cup {"hst-api.wialon.com"},
                                 p \in {"", ":443"}}

\* what the network does with a POST: it fails, or the body cannot be read,
\* or a body comes back
PostFails == [kind |-> "postfail", body |-> NoBody]

ReadFails == [kind |-> "readfail", body |-> NoBody]

Responds(body) == [kind |-> "body", body |-> body]

\* a call that ended in a panic with the given message
Panic(msg, dp) ==
    [aborted |-> msg, dp |-> dp, svc |-> <<>>, sent |-> FALSE,
     request |-> NoEntries, result |-> NoBody]

\* the reqParams map of WialonAPICall
ReqParams(sid, svc, params) ==
    [k \in {"sid", "svc", "params"} |->
        CASE k = "sid" -> StrV(sid)
          [] k = "svc" -> StrV(Str(svc))
          [] OTHER -> MapV(params)]

\* WialonAPICall of a client with the given fields: the panic message if any,
\* the default parameters it leaves, the service name it computes, the form
\* fields it posts and the body it returns
WialonAPICall(sid, base, dp, action, params, env) ==
    LET norm == NormalizeSvc(action)
        upd == UpdateExtraParams(dp, ReqParams(sid, norm.svc, params))
        all == upd.dp.m
    IN  IF ~norm.ok THEN Panic("slice bounds out of range", dp)
        ELSE IF ~upd.ok THEN Panic("assignment to entry in nil map", dp)
        ELSE IF ~UrlParseOk(base) THEN Panic("Cannot parse Wialon baseAPIUrl", upd.dp)
        ELSE IF \E k \in DOMAIN all : ~FieldOk(all[k])
             THEN Panic("Cannot Marshal params", upd.dp)
        ELSE IF env.kind = "postfail" THEN Panic("Cannot do Post Query", upd.dp)
        ELSE IF env.kind = "readfail" THEN Panic("Cannot read response body", upd.dp)
        ELSE [aborted |-> "", dp |-> upd.dp, svc |-> norm.svc, sent |-> TRUE,
              request |-> [k \in DOMAIN all |-> FieldValue(all[k])],
              result |-> env.body]

\* a Login that clears the session when the response carries no string eid
LoginOutcomeClears(sid, result) ==
    LET eid == AssertString(Unmarshal(result, NoEntries), "eid")
    IN  IF eid.ok THEN [Sid |-> eid.s, ok |-> TRUE] ELSE [Sid |-> "", ok |-> FALSE]

\* what Login does with the result of its call: the new Sid and the flag
LoginOutcome(sid, result) ==
    LET eid == AssertString(Unmarshal(result, NoEntries), "eid")
    IN  IF eid.ok THEN [Sid |-> eid.s, ok |-> TRUE] ELSE [Sid |-> sid, ok |-> FALSE]

\* what Logout does with the result of its call, i being the outcome of
\* int(err): the new Sid and the flag
LogoutOutcome(sid, result, i) ==
    LET err == AssertFloat64(Unmarshal(result, NoEntries), "error")
    IN  IF err.ok /\ IsZero(i) THEN [Sid |-> "", ok |-> TRUE]
        ELSE [Sid |-> sid, ok |-> FALSE]

\* the float64 that Logout and ErrorHandler read from the "error" field
ErrorField(result) == AssertFloat64(Unmarshal(result, NoEntries), "error")

\* an ErrorHandler that reports InvalidResult for a body it cannot read
ErrorHandlerStrict(res, i) ==
    IF ErrorField(res).ok
    THEN [we |-> ToInt16(i), msg |-> WialonErrors(ToInt16(i))]
    ELSE [we |-> InvalidResult, msg |-> WialonErrors(InvalidResult)]

\* ErrorHandler, i being the outcome of int(loginError)
ErrorHandler(res, i) == [we |-> ToInt16(i), msg |-> WialonErrors(ToInt16(i))]

(***************************************************************************)
(* The inputs of the model.                                                *)
(***************************************************************************)
\* operation names of the remote API
TokenLogin == <<"t", "o", "k", "e", "n", "_", "l", "o", "g", "i", "n">>

CoreLogout == <<"c", "o", "r", "e", "_", "l", "o", "g", "o", "u", "t">>

CoreSearchItems ==
    <<"c", "o", "r", "e", "_", "s", "e", "a", "r", "c", "h", "_", "i", "t", "e", "m", "s">>

UnitGroupUpdateUnits == UnitGroup \o <<"_", "u", "p", "d", "a", "t", "e", "_", "u", "n", "i", "t", "s">>

\* the names a caller passes to WialonAPICall in the client's life
CallNames == {CoreSearchItems, UnitGroupUpdateUnits, UnitGroup}

\* the characters operation names are enumerated over
Alphabet == {"_", "p", "x"}

\* the sequences over Alphabet of length at most n
Tails(n) == UNION {[1..k -> Alphabet] : k \in 0..n}

\* the heads of the enumerated names: none, one underscore-free word, and
\* "unit_group" with and without its last character
Heads == {<<>>, <<"c", "o", "r", "e">>, SubSeq(UnitGroup, 1, Len(UnitGroup) - 1), UnitGroup}

\* every enumerated operation name
AllNames == {h \o t : h \in Heads, t \in Tails(MaxSuffix)}

\* the mappings passed to NewWialon as extraParams
ExtraParamsArgs == {NilMap, GoMap([a |-> IntV(1), sid |-> StrV("stale")])}

\* the session ids passed to NewWialon
SidArgs == {"", "s0"}

\* the maps passed to UpdateExtraParams
UpdateArgs ==
    {NoEntries, [b |-> FloatV(15)], [svc |-> StrV("mine"), params |-> BoolV(TRUE)],
     [b |-> ChanV]}
    \cup {[a |-> IntV(n)] : n \in 1..MaxInt}

\* the params maps passed to WialonAPICall
CallArgs == {NoEntries, [a |-> StrV("x"), b |-> IntV(5)], [a |-> ChanV]}

Tokens == {"tok"}

\* the bodies the endpoint answers with in the client's life
Bodies ==
    {Object([eid |-> JStr("abc123")]), Object([eid |-> JNum(70)]),
     Object([eid |-> JStr("abc123"), error |-> JNum(0)]),
     Object([error |-> JNum(0)]), Object([error |-> JNum(10)]),
     Object([error |-> JNum(40)]), Object([error |-> JNum(5)]),
     Object([error |-> JStr("0")]), Object([error |-> JHuge(1)]),
     Object(NoEntries), InvalidBody, ArrayBody}

Outcomes == {PostFails, ReadFails} \cup {Responds(b) : b \in Bodies}

\* what the network does with the POST of a call from outside
CallOutcomes == {PostFails, ReadFails, Responds(Object(NoEntries)), Responds(InvalidBody)}

\* the integer error values given to ErrorHandler: every code of interest,
\* shifted by multiples of 2^16
ErrorInts ==
    {c + k * TwoTo16 :
        c \in DefinedErrors \cup {0, 10, 1000, 1007, 2016, -1},
        k \in (-MaxWrap)..MaxWrap}

\* the bodies given to ErrorHandler
ErrorBodies ==
    {Object([error |-> JNum(10 * e + f)]) : e \in ErrorInts, f \in {0, 5}}
    \cup {Object([error |-> JHuge(1)]), Object([error |-> JHuge(-1)]),
          Object([error |-> JStr("7")]), Object([error |-> JNull]),
          Object([error |-> JBool]), Object([eid |-> JStr("abc123")]),
          Object(NoEntries), InvalidBody, NullBody, ArrayBody}

(***************************************************************************)
(* The state machine.  last records the operation that ran last: its       *)
(* arguments, the service name it computed, the form fields it posted      *)
(* (sent), the body the endpoint answered with and what the operation      *)
(* returned.  written records, for every key, the value last registered by *)
(* the constructor or by a call of UpdateExtraParams from outside; merged  *)
(* tells whether a WialonAPICall has changed DefaultParams.                *)
(***************************************************************************)
Record(op, action, params, call, env, result, ok, we, msg) ==
    [op |-> op, action |-> action, params |-> params, svc |-> call.svc,
     sent |-> call.sent, request |-> call.request,
     body |-> IF call.sent THEN env.body ELSE NoBody, result |-> result,
     ok |-> ok, we |-> we, msg |-> msg]

\* no call was made by the operation
NoCall == Panic("", NilMap)

Start(w) ==
    /\ Sid = w.Sid
    /\ BaseAPIUrl = w.BaseAPIUrl
    /\ DefaultParams = w.DefaultParams
    /\ aborted = ""
    /\ last = Record("new", <<>>, NoEntries, NoCall, PostFails, NoBody, FALSE, 0, "")
    /\ written = w.DefaultParams.m
    /\ merged = FALSE

Init ==
    \E w \in {NewDefaultWialon}
             \cup {NewWialon(s, h, p, sid, e) :
                     s \in Schemes, h \in Hosts, p \in Ports, sid \in SidArgs,
                     e \in ExtraParamsArgs} :
        Start(w)

\* w.Login(token)
Login(token, env) ==
    LET call == WialonAPICall(Sid, BaseAPIUrl, DefaultParams, TokenLogin,
                              [token |-> StrV(token)], env)
        out == LoginOutcome(Sid, call.result)
    IN  /\ aborted = ""
        /\ DefaultParams' = call.dp
        /\ aborted' = call.aborted
        /\ Sid' = IF call.aborted = "" THEN out.Sid ELSE Sid
        /\ last' = Record("Login", TokenLogin, [token |-> StrV(token)], call, env,
                          call.result, call.aborted = "" /\ out.ok, 0, "")
        /\ merged' = (merged \/ call.dp # DefaultParams)
        /\ UNCHANGED <<BaseAPIUrl, written>>

\* w.Logout()
Logout(env) ==
    LET call == WialonAPICall(Sid, BaseAPIUrl, DefaultParams, CoreLogout,
                              NoEntries, env)
    IN  /\ aborted = ""
        /\ \E i \in FloatToInt(ErrorField(call.result)) :
              LET out == LogoutOutcome(Sid, call.result, i)
              IN  /\ Sid' = IF call.aborted = "" THEN out.Sid ELSE Sid
                  /\ last' = Record("Logout", CoreLogout, NoEntries, call, env,
                                    call.result, call.aborted = "" /\ out.ok, 0, "")
        /\ DefaultParams' = call.dp
        /\ aborted' = call.aborted
        /\ merged' = (merged \/ call.dp # DefaultParams)
        /\ UNCHANGED <<BaseAPIUrl, written>>

\* w.UpdateExtraParams(params), called from outside
Update(params) ==
    LET upd == UpdateExtraParams(DefaultParams, params)
    IN  /\ aborted = ""
        /\ DefaultParams' = upd.dp
        /\ aborted' = IF upd.ok THEN "" ELSE "assignment to entry in nil map"
        /\ last' = Record("UpdateExtraParams", <<>>, params, NoCall, PostFails, NoBody,
                          FALSE, 0, "")
        /\ written' = IF upd.ok
                      THEN [k \in DOMAIN written \cup DOMAIN params |->
                              IF k \in DOMAIN params THEN params[k] ELSE written[k]]
                      ELSE written
        /\ UNCHANGED <<Sid, BaseAPIUrl, merged>>

\* w.WialonAPICall(action, params), called from outside
Call(action, params, env) ==
    LET call == WialonAPICall(Sid, BaseAPIUrl, DefaultParams, action, params, env)
    IN  /\ aborted = ""
        /\ DefaultParams' = call.dp
        /\ aborted' = call.aborted
        /\ last' = Record("WialonAPICall", action, params, call, env, call.result,
                          FALSE, 0, "")
        /\ merged' = (merged \/ call.dp # DefaultParams)
        /\ UNCHANGED <<Sid, BaseAPIUrl, written>>

\* ErrorHandler(res)
Handle(res) ==
    /\ aborted = ""
    /\ \E i \in FloatToInt(ErrorField(res)) :
          LET out == ErrorHandler(res, i)
          IN  last' = Record("ErrorHandler", <<>>, NoEntries, NoCall, PostFails, res, FALSE,
                             out.we, out.msg)
    /\ UNCHANGED <<Sid, BaseAPIUrl, DefaultParams, aborted, written, merged>>

LoginStep == \E token \in Tokens, env \in Outcomes : Login(token, env)

LogoutStep == \E env \in Outcomes : Logout(env)

UpdateStep == \E params \in UpdateArgs : Update(params)

CallStep == \E action \in CallNames, params \in CallArgs, env \in CallOutcomes :
                Call(action, params, env)

Next == LoginStep \/ LogoutStep \/ UpdateStep \/ CallStep

\* the life of one client
Spec == Init /\ [][Next]_vars

\* the default client, given calls of every enumerated operation name
NameStep == \E action \in AllNames : Call(action, NoEntries, Responds(Object(NoEntries)))

InitDefault == Start(NewDefaultWialon)

SpecNames == InitDefault /\ [][NameStep]_vars

\* ErrorHandler given every enumerated body
ErrorStep == \E res \in ErrorBodies : Handle(res)

SpecErrors == InitDefault /\ [][ErrorStep]_vars

(***************************************************************************)
(* Properties.                                                             *)
(***************************************************************************)
\* the body is a JSON object with a string-valued field key
HasString(body, key) ==
    body.kind = "object" /\ key \in DOMAIN body.obj /\ body.obj[key].t = "string"

\* the body is a JSON object with a number-valued field key
HasNumber(body, key) ==
    body.kind = "object" /\ key \in DOMAIN body.obj /\ body.obj[key].t = "number"

\* the three fields every call sets
Fixed == {"sid", "svc", "params"}

\* the positions of the underscores of a name
Underscores(name) == {i \in 1..Len(name) : name[i] = "_"}

C2_Logout ==
    [][(last'.op = "Logout" /\ aborted' = "") =>
        IF /\ HasNumber(last'.body, "error")
           /\ last'.body.obj["error"].huge = 0
           /\ last'.body.obj["error"].n = 0
        THEN Sid' = "" /\ last'.ok
        ELSE Sid' = Sid /\ ~last'.ok]_vars

\* C3: the form fields a call posts have "sid" equal to the client's Sid at
\* the call, "svc" equal to the normalized name of the call's action and
\* "params" equal to the JSON text of the call's params, whatever defaults
\* of these names were registered or left before; and every other key
\* registered by the constructor or by UpdateExtraParams is a field holding
\* the text of the value last registered for it.
C3_Request ==
    [][last'.sent =>
        /\ Fixed \subseteq DOMAIN last'.request
        /\ last'.request["sid"] = Sid
        /\ last'.request["svc"] = Str(NormalizeSvc(last'.action).svc)
        /\ last'.request["params"] = "{" \o MarshalEntries(last'.params, 1, TRUE) \o "}"
        /\ \A k \in DOMAIN written \ Fixed :
              /\ k \in DOMAIN last'.request
              /\ last'.request[k] = FieldValue(written[k])]_vars

\* a call from outside was posted by a client whose registered defaults
\* name "sid", "svc", "params" and another key, with a session id of its own
C3_Witness ==
    /\ last.op = "WialonAPICall"
    /\ last.sent
    /\ Fixed \cup {"a"} \subseteq DOMAIN written
    /\ written["svc"] = StrV("mine")
    /\ written["sid"] = StrV("stale")
    /\ Sid = "abc123"
    /\ last.params # NoEntries

\* C4: for every name that starts with "unit_group" the normalization does
\* not fail and yields the ten-character prefix, a slash, and every
\* character of the name after the prefix.
C4_UnitGroup ==
    (last.op = "WialonAPICall" /\ HasPrefix(last.action, UnitGroup)) =>
        /\ aborted = ""
        /\ last.svc = SubSeq(last.action, 1, Len(UnitGroup)) \o <<"/">>
                      \o SubSeq(last.action, Len(UnitGroup) + 1, Len(last.action))

\* C5: for every name that does not start with "unit_group" the service
\* name has the length of the name, a slash at the position of the name's
\* first underscore and the name's character at every other position; a
\* name without underscore is its own service name.
C5_FirstUnderscore ==
    (last.op = "WialonAPICall" /\ ~HasPrefix(last.action, UnitGroup)) =>
        /\ aborted = ""
        /\ Len(last.svc) = Len(last.action)
        /\ \A i \in 1..Len(last.action) :
              last.svc[i] =
                 IF /\ i \in Underscores(last.action)
                    /\ \A j \in Underscores(last.action) : i <= j
                 THEN "/" ELSE last.action[i]
        /\ last.request["svc"] = Str(last.svc)

\* a name with two underscores, the first one replaced
C5_Witness ==
    /\ last.op = "WialonAPICall"
    /\ last.action = <<"c", "o", "r", "e", "_", "p", "_">>
    /\ last.svc = <<"c", "o", "r", "e", "/", "p", "_">>

\* C6: an UpdateExtraParams(p) that returns leaves Sid and BaseAPIUrl as
\* they were and DefaultParams with the keys it had and those of p, every
\* key of p holding p's value and every other key its previous value; so
\* after UpdateExtraParams calls alone every key holds the value last
\* registered for it, and so does, after any operations, every key that
\* the calls of the remote API do not set themselves.
C6_Update ==
    [][(last'.op = "UpdateExtraParams" /\ aborted' = "") =>
        LET p == last'.params
        IN  /\ Sid' = Sid
            /\ BaseAPIUrl' = BaseAPIUrl
            /\ DefaultParams'.nil = DefaultParams.nil
            /\ DOMAIN DefaultParams'.m = DOMAIN DefaultParams.m \cup DOMAIN p
            /\ \A k \in DOMAIN p : DefaultParams'.m[k] = p[k]
            /\ \A k \in DOMAIN DefaultParams.m \ DOMAIN p :
                  DefaultParams'.m[k] = DefaultParams.m[k]
            /\ ~merged' => DefaultParams'.m = written'
            /\ \A k \in DOMAIN written' \ Fixed :
                  /\ k \in DOMAIN DefaultParams'.m
                  /\ DefaultParams'.m[k] = written'[k]]_vars

\* a = 1 was registered, then a = 2: a is 2 and another key is kept
C6_Witness ==
    /\ last.op = "UpdateExtraParams"
    /\ aborted = ""
    /\ last.params = [a |-> IntV(2)]
    /\ ~merged
    /\ {"a", "b"} \subseteq DOMAIN DefaultParams.m
    /\ DefaultParams.m["a"] = IntV(2)
    /\ DefaultParams.m["b"] = FloatV(15)

\* C7: ErrorHandler does not fail; for a body that is a JSON object whose
\* "error" is a number equal to a defined code it returns that code and its
\* description ("Access denied" for 7); for invalid JSON, and for a missing
\* or non-numeric "error", it returns 0 and the empty description.
C7_ErrorHandler ==
    last.op = "ErrorHandler" =>
        /\ aborted = ""
        /\ \A c \in DefinedErrors :
              (/\ HasNumber(last.result, "error")
               /\ last.result.obj["error"].huge = 0
               /\ last.result.obj["error"].n = 10 * c) =>
                  /\ last.we = c
                  /\ last.msg = Description(c)
                  /\ last.msg # ""
                  /\ (c = 7 => last.we = AccessDenied /\ last.msg = "Access denied")
        /\ ~HasNumber(last.result, "error") => (last.we = 0 /\ last.msg = "")

\* ErrorHandler was given {"error":7}
C7_Witness ==
    /\ last.op = "ErrorHandler"
    /\ last.result = Object([error |-> JNum(70)])
    /\ last.we = AccessDenied
    /\ last.msg = "Access denied"

\* C8: for a body whose "error" is an integer that is no defined code,
\* whatever its size, ErrorHandler returns the empty description.
C8_UnknownCode ==
    (/\ last.op = "ErrorHandler"
     /\ HasNumber(last.result, "error")
     /\ \/ last.result.obj["error"].huge # 0
        \/ /\ last.result.obj["error"].n % 10 = 0
           /\ last.result.obj["error"].n \div 10 \notin DefinedErrors) =>
        last.msg = ""

\* C9: UpdateExtraParams, called from outside or as the merge step of
\* WialonAPICall, never aborts, whatever mapping the client was made with.
C9_NoFailure == aborted # "assignment to entry in nil map"

\* C10: a WialonAPICall from outside that returns leaves Sid, BaseAPIUrl and
\* DefaultParams as they were.
C10_CallFrame ==
    [][(last'.op = "WialonAPICall" /\ aborted' = "") =>
        /\ Sid' = Sid
        /\ BaseAPIUrl' = BaseAPIUrl
        /\ DefaultParams' = DefaultParams]_vars

====
